---- MODULE Spec2Model ----
(***************************************************************************)
(* socks5-forwarder (src/src/main.rs): serve() accepts inbound TCP         *)
(* connections and spawns one relay() task per connection; relay() opens a *)
(* connection to the SOCKS5 proxy, runs the SOCKS5 client handshake and    *)
(* then copies bytes in both directions under tokio::try_join!.            *)
(***************************************************************************)
EXTENDS Integers, Sequences, FiniteSets, TLC

\* ------------------------------------------------------------------ bounds
MaxConns == 2
MaxInputs == 5

Conn == 1..MaxConns
Sockets == 1..(2 * MaxConns)
Dirs == {"client_to_server", "server_to_client"}

Other(d) == IF d = "client_to_server" THEN "server_to_client" ELSE "client_to_server"

VARIABLES
  args,        \* the command line as main() reads it: [username, password, target]
  listener,    \* the listening socket: "unbound", "listening", "bind_failed", "closed"
  servePc,     \* where serve() is: "bind", "loop", "returned_ok", "returned_err"
  mainPc,      \* where main() is: "serving", "exited", "panicked"
  proxy,       \* the ProxyConfig main() built: [address, credential]
  nAccepted,   \* connections the listener stream has yielded as Ok(Some(conn))
  acceptErrs,  \* Err(e) items the listener stream has yielded
  serveLog,    \* events serve() has logged, in order
  task,        \* task[t]: the relay task spawned for the t-th accepted connection
  sock,        \* sock[s]: the TCP socket s: [state, wrShut]
  users,       \* users[s]: the tasks that have held or used socket s
  inputs       \* what the environment has fed the program so far: accept errors
               \* and payload bytes count once, an accepted connection twice

vars == <<args, listener, servePc, mainPc, proxy, nAccepted, acceptErrs, serveLog, task, sock, users, inputs>>

\* ------------------------------------------------------- ProxyConfig, main
NoArg == "<absent>"
Usernames == {NoArg, "alice"}
Passwords == {NoArg, "secret"}
NoCredential == <<>>

\* a --target that is a domain name of len bytes (with its port)
Domain(len) == [kind |-> "domain", len |-> len]

\* the longest domain name a SOCKS5 request can carry (one length byte)
MaxDomainLen == 255

Targets == {Domain(11)}

\* command lines with blank credentials and with targets at and past the limit
ArgUsernames == {NoArg, ""}
ArgPasswords == {NoArg, ""}
ArgTargets == {Domain(MaxDomainLen), Domain(MaxDomainLen + 1)}

\* faulty variant: one of the two options is enough for a credential
CredentialEither(u, p) == IF u # NoArg \/ p # NoArg THEN <<u, p>> ELSE NoCredential

\* main(): credential: match (proxy_username, proxy_password)
Credential(u, p) == IF u # NoArg /\ p # NoArg THEN <<u, p>> ELSE NoCredential

ProxyConfig(u, p) == [address |-> "proxy-addr", credential |-> Credential(u, p)]

\* ------------------------------------------------------------ sockets
\* accept() and TcpStream::connect each create a socket no one else holds.
InboundSock(t) == 2 * t - 1

\* faulty variant: every task reuses one pooled proxy connection
OutboundSockShared(t) == 2

OutboundSock(t) == 2 * t

\* io::copy(&mut ri, &mut wo) reads inbound, writes outbound; the other copy
\* reads outbound, writes inbound.
Src(t, d) == IF d = "client_to_server" THEN InboundSock(t) ELSE OutboundSock(t)

Dst(t, d) == IF d = "client_to_server" THEN OutboundSock(t) ELSE InboundSock(t)

UnusedSock == [state |-> "unused", wrShut |-> FALSE]

\* the i-th byte the source of direction d delivers
Byte(d, i) == IF d = "client_to_server" THEN i ELSE 100 + i

\* ------------------------------------------------------------ relay task
NoTask ==
  [pc |-> "none", result |-> "none", via |-> "none",
   sent |-> <<>>, rcvd |-> <<>>, log |-> <<>>,
   connects |-> 0, handshakes |-> 0, pairings |-> 0,
   copy |-> [d \in Dirs |-> "idle"],
   buf |-> [d \in Dirs |-> <<>>],
   rd |-> [d \in Dirs |-> 0],
   eof |-> [d \in Dirs |-> FALSE],
   wr |-> [d \in Dirs |-> <<>>],
   shutdownCalled |-> [d \in Dirs |-> FALSE],
   fwdAfterHalfClose |-> FALSE]

\* main() has read the command line a, built the ProxyConfig and called
\* serve(), which has logged "Listening at" and is about to bind.
Started(a) ==
  /\ args = a
  /\ listener = "unbound"
  /\ servePc = "bind"
  /\ mainPc = "serving"
  /\ proxy = ProxyConfig(a.username, a.password)
  /\ nAccepted = 0
  /\ acceptErrs = 0
  /\ serveLog = <<"Listening">>
  /\ task = [t \in Conn |-> NoTask]
  /\ sock = [s \in Sockets |-> UnusedSock]
  /\ users = [s \in Sockets |-> {}]
  /\ inputs = 0

Init ==
  \E u \in Usernames, p \in Passwords, tg \in Targets :
    Started([username |-> u, password |-> p, target |-> tg])

InitArgs ==
  \E u \in ArgUsernames, p \in ArgPasswords, tg \in ArgTargets :
    Started([username |-> u, password |-> p, target |-> tg])

Running(t, where) == mainPc = "serving" /\ task[t].pc = where

Use(us, t, S) == [s \in Sockets |-> IF s \in S THEN us[s] \cup {t} ELSE us[s]]

\* faulty variant: a dropped stream leaves its socket open
DropLeaks(sk, S) == sk

\* Dropping a TcpStream closes its socket.
Drop(sk, S) ==
  [s \in Sockets |->
     IF s \in S /\ sk[s].state = "open" THEN [sk[s] EXCEPT !.state = "closed"] ELSE sk[s]]

\* A future dropped before it completed is cancelled where it stands.
DropCopies(c) == [d \in Dirs |-> IF c[d] = "copying" THEN "cancelled" ELSE c[d]]

\* ------------------------------------------------------------------ serve
\* TcpListener::bind(listen_addr).await? succeeds: serve() enters its loop.
BindOk ==
  /\ servePc = "bind" /\ mainPc = "serving"
  /\ listener' = "listening"
  /\ servePc' = "loop"
  /\ UNCHANGED <<args, inputs, mainPc, proxy, nAccepted, acceptErrs, serveLog, task, sock, users>>

\* faulty variant: a failed bind is tried again
BindErrRetries ==
  /\ servePc = "bind" /\ mainPc = "serving"
  /\ listener' = "bind_failed"
  /\ UNCHANGED <<args, servePc, mainPc, inputs, proxy, nAccepted, acceptErrs, serveLog, task, sock, users>>

\* TcpListener::bind(listen_addr).await? fails: `?` returns the error to
\* main, whose expect("unexpected error") panics.
BindErr ==
  /\ servePc = "bind" /\ mainPc = "serving"
  /\ listener' = "bind_failed"
  /\ servePc' = "returned_err"
  /\ mainPc' = "panicked"
  /\ UNCHANGED <<args, inputs, proxy, nAccepted, acceptErrs, serveLog, task, sock, users>>

\* faulty variant: the loop awaits each relay before the next accept
AcceptLoopAwaitsRelays ==
  /\ servePc = "loop" /\ mainPc = "serving"
  /\ \A t \in Conn : task[t].pc \in {"none", "ok", "failed"}

\* loop { match listener_stream.try_next().await { ... } }: the loop waits for
\* the listener stream only.
AcceptLoop == servePc = "loop" /\ mainPc = "serving"

\* tokio::spawn(async move { relay(conn, target_addr, proxy).await }): the new
\* task owns conn and starts at TcpStream::connect(&proxy.address).
Spawned == [NoTask EXCEPT !.pc = "connect"]

\* Ok(Some(conn)) => log, clone target_addr and proxy, spawn the relay task.
AcceptOk ==
  /\ AcceptLoop
  /\ nAccepted < MaxConns /\ inputs + 2 <= MaxInputs
  /\ inputs' = inputs + 2
  /\ LET t == nAccepted + 1 IN
       /\ nAccepted' = t
       /\ serveLog' = Append(serveLog, "Receive new incoming connection")
       /\ sock' = [sock EXCEPT ![InboundSock(t)] = [state |-> "open", wrShut |-> FALSE]]
       /\ users' = Use(users, t, {InboundSock(t)})
       /\ task' = [task EXCEPT ![t] = Spawned]
  /\ UNCHANGED <<args, listener, servePc, mainPc, proxy, acceptErrs>>

\* faulty variant: Err(e) => return Err(e)
AcceptErrReturns ==
  /\ AcceptLoop
  /\ inputs < MaxInputs
  /\ inputs' = inputs + 1
  /\ acceptErrs' = acceptErrs + 1
  /\ serveLog' = Append(serveLog, "Receiving incoming connection in failure")
  /\ servePc' = "returned_err"
  /\ UNCHANGED <<args, listener, mainPc, proxy, nAccepted, task, sock, users>>

\* Err(e) => log::error!(...): the loop goes on.
AcceptErr ==
  /\ AcceptLoop
  /\ inputs < MaxInputs
  /\ inputs' = inputs + 1
  /\ acceptErrs' = acceptErrs + 1
  /\ serveLog' = Append(serveLog, "Receiving incoming connection in failure")
  /\ UNCHANGED <<args, listener, servePc, mainPc, proxy, nAccepted, task, sock, users>>

\* The runtime is dropped when main ends: every task still suspended is
\* dropped with the sockets it holds; nothing of the task's future is left.
Aborted(tk) ==
  IF tk.pc \in {"none", "ok", "failed"} THEN tk
  ELSE [NoTask EXCEPT !.pc = "aborted", !.result = "aborted"]

\* faulty variant: Ok(None) is logged and the loop goes on
ListenerClosedContinues ==
  /\ AcceptLoop
  /\ listener = "listening"
  /\ listener' = "closed"
  /\ serveLog' = Append(serveLog, "Listener closed")
  /\ UNCHANGED <<args, servePc, mainPc, task, sock, inputs, proxy, nAccepted, acceptErrs, users>>

\* Ok(None) => log::info!("Listener closed"); return Ok(()): serve returns
\* without awaiting any task, and main, which only awaited serve, ends.
ListenerClosed ==
  /\ AcceptLoop
  /\ listener' = "closed"
  /\ servePc' = "returned_ok"
  /\ mainPc' = "exited"
  /\ serveLog' = Append(serveLog, "Listener closed")
  /\ task' = [t \in Conn |-> Aborted(task[t])]
  /\ sock' = Drop(sock, Sockets)
  /\ UNCHANGED <<args, inputs, proxy, nAccepted, acceptErrs, users>>

\* ------------------------------------------------------------------ relay
\* faulty variant: serve awaits the task and returns its error
ServeAfterRelayEndPropagates(cur, res) == IF res = "ok" THEN cur ELSE "returned_err"

\* tokio::spawn(..) drops the JoinHandle: the result of relay() reaches no one
\* and serve stays where it is.
ServeAfterRelayEnd(cur, res) == cur

\* relay() returns res: inbound and outbound are dropped, and so are the
\* copies still pending.
Finish(t, tk, res, sk) ==
  /\ task' = [task EXCEPT ![t] =
       [tk EXCEPT !.pc = IF res = "ok" THEN "ok" ELSE "failed",
                  !.result = res,
                  !.copy = DropCopies(tk.copy)]]
  /\ sock' = Drop(sk, {InboundSock(t), OutboundSock(t)})
  /\ servePc' = ServeAfterRelayEnd(servePc, res)

\* SOCKS5 messages (RFC 1928/1929) the client side sends.
MethodsOffered(cred) == IF cred = NoCredential THEN <<0>> ELSE <<0, 2>>

MethodSelection(cred) == <<"methods", MethodsOffered(cred)>>

AuthRequest(cred) == <<"auth", cred[1], cred[2]>>

\* The length byte of a domain-name address.
DomainLenByte(tg) == tg.len % 256

\* The CONNECT request carries the target: its length byte, then the name.
ConnectRequest == <<"connect", DomainLenByte(args.target), args.target>>

\* Converting the target for the request rejects a name the length byte
\* cannot hold.
TargetValid(tg) == tg.len <= MaxDomainLen

\* Replies the proxy may give.
MethodReplies == {0, 2, 255}
AuthReplies == {0, 1}
ConnectReplies == {0, 1, 5}

\* What the client does on the server's method selection.
AfterMethodReply(cred, m) ==
  IF m = 0 THEN "connect"
  ELSE IF m = 2 /\ cred # NoCredential THEN "auth"
  ELSE "fail"

\* faulty variant: a failed connect is tried again
ProxyConnectErrRetries(t) ==
  /\ Running(t, "connect")
  /\ task[t].connects < 2
  /\ task' = [task EXCEPT ![t].connects = @ + 1]
  /\ UNCHANGED <<args, listener, inputs, servePc, mainPc, proxy, nAccepted, acceptErrs, serveLog, sock, users>>

\* TcpStream::connect(&proxy.address).await? fails: relay returns the error.
ProxyConnectErr(t) ==
  /\ Running(t, "connect")
  /\ Finish(t, [task[t] EXCEPT !.connects = @ + 1], "proxy_unreachable", sock)
  /\ UNCHANGED <<args, listener, inputs, mainPc, proxy, nAccepted, acceptErrs, serveLog, users>>

\* match proxy.credential.as_ref() { None => .., Some((username, password)) => .. }
HandshakeCall(cred) ==
  IF cred = NoCredential THEN "connect_with_socket"
  ELSE "connect_with_password_and_socket"

\* faulty variant: the handshake starts whatever the target is
ProxyConnectOkUnchecked(t) ==
  /\ Running(t, "connect")
  /\ task' = [task EXCEPT ![t] =
       [@ EXCEPT !.connects = @ + 1, !.handshakes = @ + 1,
                 !.via = HandshakeCall(proxy.credential),
                 !.sent = <<MethodSelection(proxy.credential)>>,
                 !.pc = "wait_method"]]
  /\ sock' = [sock EXCEPT ![OutboundSock(t)] = [state |-> "open", wrShut |-> FALSE]]
  /\ users' = Use(users, t, {OutboundSock(t)})
  /\ UNCHANGED <<args, listener, inputs, servePc, mainPc, proxy, nAccepted, acceptErrs, serveLog>>

\* TcpStream::connect(&proxy.address).await? succeeds; relay calls
\* Socks5Stream::connect_with_socket / connect_with_password_and_socket
\* (chosen by proxy.credential) with that socket and target_addr. The call
\* converts target_addr first: a target it rejects makes the call fail before
\* anything is sent; otherwise the handshake starts with the method selection.
ProxyConnectOk(t) ==
  /\ Running(t, "connect")
  /\ LET tk == [task[t] EXCEPT !.connects = @ + 1, !.handshakes = @ + 1,
                               !.via = HandshakeCall(proxy.credential)]
         sk == [sock EXCEPT ![OutboundSock(t)] = [state |-> "open", wrShut |-> FALSE]]
     IN IF TargetValid(args.target)
        THEN /\ task' = [task EXCEPT ![t] =
                  [tk EXCEPT !.sent = <<MethodSelection(proxy.credential)>>,
                             !.pc = "wait_method"]]
             /\ sock' = sk
             /\ UNCHANGED servePc
        ELSE Finish(t, tk, "invalid_target", sk)
  /\ users' = Use(users, t, {OutboundSock(t)})
  /\ UNCHANGED <<args, listener, inputs, mainPc, proxy, nAccepted, acceptErrs, serveLog>>

\* faulty variant: a failed handshake is started again on the same socket
HandshakeFailedRetries(t, tk) ==
  /\ task' = [task EXCEPT ![t] =
       [tk EXCEPT !.handshakes = @ + 1,
                  !.sent = @ \o <<MethodSelection(proxy.credential)>>,
                  !.pc = "wait_method"]]
  /\ UNCHANGED <<sock, servePc>>

\* faulty variant: the handshake error is dropped and the copies start
HandshakeFailedIgnored(t, tk) ==
  /\ task' = [task EXCEPT ![t] =
       [tk EXCEPT !.pc = "relay", !.pairings = @ + 1,
                  !.copy = [d \in Dirs |-> "copying"],
                  !.log = Append(@, "Start relay")]]
  /\ UNCHANGED <<sock, servePc>>

\* faulty variant: the handshake goes on to CONNECT after the error
HandshakeFailedSendsConnect(t, tk) ==
  /\ task' = [task EXCEPT ![t] =
       [tk EXCEPT !.sent = Append(@, ConnectRequest), !.pc = "wait_connect"]]
  /\ UNCHANGED <<sock, servePc>>

\* The `?` on the handshake future: a SocksError makes relay return it.
HandshakeFailed(t, tk) == Finish(t, tk, "handshake_failed", sock)

\* The server's method selection arrives.
MethodReply(t) ==
  /\ Running(t, "wait_method")
  /\ \E m \in MethodReplies :
       LET step == AfterMethodReply(proxy.credential, m)
           tk == [task[t] EXCEPT !.rcvd = Append(@, <<"method", m>>)]
       IN CASE step = "connect" ->
                 /\ task' = [task EXCEPT ![t] =
                      [tk EXCEPT !.sent = Append(@, ConnectRequest), !.pc = "wait_connect"]]
                 /\ UNCHANGED <<sock, servePc>>
            [] step = "auth" ->
                 /\ task' = [task EXCEPT ![t] =
                      [tk EXCEPT !.sent = Append(@, AuthRequest(proxy.credential)),
                                 !.pc = "wait_auth"]]
                 /\ UNCHANGED <<sock, servePc>>
            [] OTHER -> HandshakeFailed(t, tk)
  /\ UNCHANGED <<args, listener, inputs, mainPc, proxy, nAccepted, acceptErrs, serveLog, users>>

\* The server's username/password status arrives.
AuthReply(t) ==
  /\ Running(t, "wait_auth")
  /\ \E status \in AuthReplies :
       LET tk == [task[t] EXCEPT !.rcvd = Append(@, <<"auth", status>>)] IN
         IF status = 0
         THEN /\ task' = [task EXCEPT ![t] =
                   [tk EXCEPT !.sent = Append(@, ConnectRequest), !.pc = "wait_connect"]]
              /\ UNCHANGED <<sock, servePc>>
         ELSE HandshakeFailed(t, tk)
  /\ UNCHANGED <<args, listener, inputs, mainPc, proxy, nAccepted, acceptErrs, serveLog, users>>

\* The server's CONNECT reply arrives. On success relay splits inbound and
\* outbound, builds the two copies, logs "Start relay" and polls try_join!.
ConnectReply(t) ==
  /\ Running(t, "wait_connect")
  /\ \E code \in ConnectReplies :
       LET tk == [task[t] EXCEPT !.rcvd = Append(@, <<"connect", code>>)] IN
         IF code = 0
         THEN /\ task' = [task EXCEPT ![t] =
                   [tk EXCEPT !.pc = "relay", !.pairings = @ + 1,
                              !.copy = [d \in Dirs |-> "copying"],
                              !.log = Append(@, "Start relay")]]
              /\ UNCHANGED <<sock, servePc>>
         ELSE HandshakeFailed(t, tk)
  /\ UNCHANGED <<args, listener, inputs, mainPc, proxy, nAccepted, acceptErrs, serveLog, users>>

\* A read or write of the handshake fails, or a reply is malformed.
HandshakeIoErr(t) ==
  /\ mainPc = "serving"
  /\ task[t].pc \in {"wait_method", "wait_auth", "wait_connect"}
  /\ HandshakeFailed(t, [task[t] EXCEPT !.rcvd = Append(@, <<"io_error">>)])
  /\ UNCHANGED <<args, listener, inputs, mainPc, proxy, nAccepted, acceptErrs, serveLog, users>>

\* ------------------------------------------------------------- the copies
Stopped == {"done", "copy_err", "shutdown_err"}
Errored == {"copy_err", "shutdown_err"}

\* faulty variant: join! followed by `?` (waits for both futures)
JoinAll(c) ==
  IF \E d \in Dirs : c[d] \notin Stopped THEN "pending"
  ELSE IF \E d \in Dirs : c[d] \in Errored THEN "err"
  ELSE "ok"

\* faulty variant: select! (ready with the first future to finish)
JoinFirst(c) ==
  IF \E d \in Dirs : c[d] \in Errored THEN "err"
  ELSE IF \E d \in Dirs : c[d] = "done" THEN "ok"
  ELSE "pending"

\* tokio::try_join!(client_to_server, server_to_client)?: ready with the
\* first error, or with Ok once both futures are Ok; pending otherwise.
TryJoin(c) ==
  IF \E d \in Dirs : c[d] \in Errored THEN "err"
  ELSE IF \A d \in Dirs : c[d] = "done" THEN "ok"
  ELSE "pending"

\* faulty variant: the destination is never shut down
ShutdownNever(r) == FALSE

\* faulty variant: shutdown is called whatever the copy returned
ShutdownAlways(r) == TRUE

\* io::copy(..).await?; w.shutdown().await: shutdown is reached only when
\* the copy returned Ok, which it does at the source's end-of-stream.
ShutdownAfterCopy(r) == r = "eof"

\* One of the two async blocks completes: the copy stopped with r ("eof" or
\* "err"), shutdown (if reached) ended with sres; try_join! is polled on.
CopyStops(t, d, r, sres) ==
  LET called == ShutdownAfterCopy(r)
      state == IF r = "err" THEN "copy_err"
               ELSE IF called /\ sres = "err" THEN "shutdown_err"
               ELSE "done"
      tk == [task[t] EXCEPT !.copy[d] = state,
                            !.eof[d] = (r = "eof"),
                            !.shutdownCalled[d] = called]
      sk == IF called /\ sres = "ok"
            THEN [sock EXCEPT ![Dst(t, d)].wrShut = TRUE]
            ELSE sock
      joined == TryJoin(tk.copy)
  IN CASE joined = "err" -> Finish(t, tk, "io_error", sk)
       [] joined = "ok" ->
            Finish(t, [tk EXCEPT !.log = Append(@, "Relay finished")], "ok", sk)
       [] OTHER -> /\ task' = [task EXCEPT ![t] = tk]
                   /\ sock' = sk
                   /\ UNCHANGED servePc

Copying(t, d) == Running(t, "relay") /\ task[t].copy[d] = "copying"

\* io::copy reads the next bytes of its source into its buffer.
CopyRead(t, d) ==
  /\ Copying(t, d)
  /\ task[t].buf[d] = <<>>
  /\ inputs < MaxInputs
  /\ inputs' = inputs + 1
  /\ task' = [task EXCEPT ![t] =
       [@ EXCEPT !.rd[d] = @ + 1, !.buf[d] = <<Byte(d, task[t].rd[d] + 1)>>]]
  /\ users' = Use(users, t, {Src(t, d)})
  /\ UNCHANGED <<args, listener, servePc, mainPc, proxy, nAccepted, acceptErrs, serveLog, sock>>

\* faulty variant: the buffer is written twice
CopyWriteTwice(t, d) ==
  /\ Copying(t, d)
  /\ task[t].buf[d] # <<>>
  /\ task' = [task EXCEPT ![t] =
       [@ EXCEPT !.wr[d] = @ \o task[t].buf[d] \o task[t].buf[d], !.buf[d] = <<>>,
                 !.fwdAfterHalfClose = @ \/ task[t].copy[Other(d)] = "done"]]
  /\ users' = Use(users, t, {Dst(t, d)})
  /\ UNCHANGED <<args, listener, inputs, servePc, mainPc, proxy, nAccepted, acceptErrs, serveLog, sock>>

\* io::copy writes its buffer to its destination.
CopyWrite(t, d) ==
  /\ Copying(t, d)
  /\ task[t].buf[d] # <<>>
  /\ task' = [task EXCEPT ![t] =
       [@ EXCEPT !.wr[d] = @ \o task[t].buf[d], !.buf[d] = <<>>,
                 !.fwdAfterHalfClose = @ \/ task[t].copy[Other(d)] = "done"]]
  /\ users' = Use(users, t, {Dst(t, d)})
  /\ UNCHANGED <<args, listener, inputs, servePc, mainPc, proxy, nAccepted, acceptErrs, serveLog, sock>>

\* The source reaches end-of-stream: io::copy flushes and returns Ok, and
\* the block goes on to shut down its destination's write side.
CopyEof(t, d) ==
  /\ Copying(t, d)
  /\ task[t].buf[d] = <<>>
  /\ \E sres \in {"ok", "err"} : CopyStops(t, d, "eof", sres)
  /\ users' = Use(users, t, {Src(t, d), Dst(t, d)})
  /\ UNCHANGED <<args, listener, inputs, mainPc, proxy, nAccepted, acceptErrs, serveLog>>

\* A read of the source or a write to the destination fails: io::copy
\* returns the error and `?` ends the block with it.
CopyIoErr(t, d) ==
  /\ Copying(t, d)
  /\ CopyStops(t, d, "err", "ok")
  /\ users' = Use(users, t, {IF task[t].buf[d] = <<>> THEN Src(t, d) ELSE Dst(t, d)})
  /\ UNCHANGED <<args, listener, inputs, mainPc, proxy, nAccepted, acceptErrs, serveLog>>

Next ==
  \/ BindOk
  \/ BindErr
  \/ AcceptOk
  \/ AcceptErr
  \/ ListenerClosed
  \/ \E t \in Conn : ProxyConnectOk(t)
  \/ \E t \in Conn : ProxyConnectErr(t)
  \/ \E t \in Conn : MethodReply(t)
  \/ \E t \in Conn : AuthReply(t)
  \/ \E t \in Conn : ConnectReply(t)
  \/ \E t \in Conn : HandshakeIoErr(t)
  \/ \E t \in Conn, d \in Dirs : CopyRead(t, d)
  \/ \E t \in Conn, d \in Dirs : CopyWrite(t, d)
  \/ \E t \in Conn, d \in Dirs : CopyEof(t, d)
  \/ \E t \in Conn, d \in Dirs : CopyIoErr(t, d)

Spec == Init /\ [][Next]_vars

\* The same program started with blank credentials and over-long targets.
SpecArgs == InitArgs /\ [][Next]_vars

\* ------------------------------------------------------------ properties
Ended(t) == task[t].pc \in {"ok", "failed"}

\* the task reached the copy phase (inbound and outbound were split and paired)
Relayed(t) == task[t].pairings > 0

\* The handshake of task t ran to its successful end: method 0x00 or 0x02
\* selected, status 0x00 on authentication if 0x02, reply code 0x00 to CONNECT.
HandshakeSucceeded(t) ==
  LET r == task[t].rcvd IN
    /\ task[t].connects = 1
    /\ sock[OutboundSock(t)].state # "unused"
    /\ Len(r) >= 2
    /\ r[Len(r)] = <<"connect", 0>>
    /\ \/ r[1] = <<"method", 0>> /\ Len(r) = 2
       \/ r[1] = <<"method", 2>> /\ Len(r) = 3 /\ r[2] = <<"auth", 0>>
    /\ task[t].sent[Len(task[t].sent)] = ConnectRequest

C2_ShutdownWheneverCopyStops ==
  \A t \in Conn, d \in Dirs :
    task[t].copy[d] \in Stopped => task[t].shutdownCalled[d]

\* C2 as amended: shutdown is called on the destination exactly when the copy
\* stopped at its source's end-of-stream, and half-closes the destination if
\* it succeeds; a copy that stopped on an error (or was dropped) never calls
\* shutdown, and its destination is not half-closed.
C2_ShutdownOnlyAfterEof ==
  \A t \in Conn, d \in Dirs :
    /\ task[t].copy[d] = "done" =>
         task[t].eof[d] /\ task[t].shutdownCalled[d] /\ sock[Dst(t, d)].wrShut
    /\ task[t].copy[d] = "shutdown_err" =>
         task[t].eof[d] /\ task[t].shutdownCalled[d] /\ ~sock[Dst(t, d)].wrShut
    /\ task[t].copy[d] \in {"copy_err", "cancelled", "copying"} =>
         ~task[t].eof[d] /\ ~task[t].shutdownCalled[d] /\ ~sock[Dst(t, d)].wrShut

\* one direction stopped at end-of-stream and shut its destination down, the
\* other stopped on an error and did not
C2_Witness ==
  \E t \in Conn, d \in Dirs :
    /\ task[t].copy[d] = "done" /\ sock[Dst(t, d)].wrShut
    /\ task[t].copy[Other(d)] = "copy_err" /\ ~sock[Dst(t, Other(d))].wrShut
    /\ sock[Dst(t, Other(d))].state = "closed"

\* C3: nothing of the copy phase happens in a task (no copy started, no byte
\* read from inbound or outbound, no byte written to either) unless the proxy
\* connect and the whole handshake have succeeded.
C3_NoRelayBeforeHandshake ==
  \A t \in Conn :
    (\/ Relayed(t)
     \/ task[t].pc \in {"relay", "ok"}
     \/ \E d \in Dirs : \/ task[t].copy[d] # "idle"
                        \/ task[t].rd[d] > 0
                        \/ task[t].buf[d] # <<>>
                        \/ task[t].wr[d] # <<>>)
    => HandshakeSucceeded(t)

\* after a successful handshake the server-to-client copy has forwarded a
\* byte while the client-to-server copy has not read anything yet
C3_Witness ==
  \E t \in Conn :
    /\ HandshakeSucceeded(t)
    /\ task[t].wr["server_to_client"] # <<>>
    /\ task[t].rd["client_to_server"] = 0

TaskFails(t) == task[t].pc # "failed" /\ task'[t].pc = "failed"

\* the sockets of task u
SocksOf(u) == {InboundSock(u), OutboundSock(u)}

\* C5: the n-th accepted connection has its own relay task and there is no
\* other task; a step in which one task fails leaves every other task, and
\* every other task's sockets, as they were, and leaves serve in its accept
\* loop with main still serving.
C5_TaskFailureIsContained ==
  /\ [](\A t \in Conn : (t <= nAccepted) <=> (task[t].pc # "none"))
  /\ [][\A t \in Conn :
          TaskFails(t) =>
            /\ \A u \in Conn \ {t} :
                 /\ task'[u] = task[u]
                 /\ \A s \in SocksOf(u) : sock'[s] = sock[s]
            /\ servePc = "loop" /\ servePc' = "loop"
            /\ mainPc' = "serving"
            /\ nAccepted' = nAccepted]_vars

\* the first task failed, the second one went on to complete, and serve is
\* still in its accept loop
C5_Witness ==
  /\ task[1].pc = "failed"
  /\ task[2].pc = "ok"
  /\ servePc = "loop" /\ mainPc = "serving"

\* the listener stream yields Err(e) in this step
AcceptFails == acceptErrs' = acceptErrs + 1

\* the "Receive new incoming connection" entries of the log
AcceptedLogged == {i \in 1..Len(serveLog) : serveLog[i] = "Receive new incoming connection"}

FailedLogged == {i \in 1..Len(serveLog) : serveLog[i] = "Receiving incoming connection in failure"}

\* C6: a step in which an accept fails leaves serve in its accept loop, with
\* main serving, and spawns no task; the tasks are exactly one per accepted
\* connection however many accepts failed, each failure being logged.
C6_AcceptErrorKeepsListening ==
  /\ [](/\ Cardinality(FailedLogged) = acceptErrs
        /\ Cardinality(AcceptedLogged) = nAccepted
        /\ Cardinality({t \in Conn : task[t].pc # "none"}) = nAccepted
        /\ (acceptErrs > 0 /\ mainPc = "serving" => servePc = "loop"))
  /\ [][AcceptFails =>
          /\ servePc' = "loop"
          /\ mainPc' = "serving"
          /\ task' = task
          /\ nAccepted' = nAccepted
          /\ sock' = sock]_vars

\* two accepts failed and the connection accepted after them has its task
C6_Witness ==
  /\ Len(serveLog) >= 4
  /\ serveLog[2] = "Receiving incoming connection in failure"
  /\ serveLog[3] = "Receiving incoming connection in failure"
  /\ serveLog[4] = "Receive new incoming connection"
  /\ task[1].pc # "none"
  /\ servePc = "loop" /\ mainPc = "serving"

Suspended(t) ==
  task[t].pc \in {"connect", "wait_method", "wait_auth", "wait_connect", "relay"}

\* C7: whatever the relay tasks are doing, serve in its accept loop can take
\* the next connection from the listener and spawn its task (as long as the
\* model's bounds leave a connection to accept).
C7_AcceptNeverWaitsForRelay ==
  (/\ servePc = "loop" /\ mainPc = "serving"
   /\ nAccepted < MaxConns /\ inputs + 2 <= MaxInputs)
  => ENABLED AcceptOk

\* every connection the bounds allow was accepted while all the earlier tasks
\* were still suspended, in different phases
C7_Witness ==
  /\ nAccepted = MaxConns
  /\ \A t \in Conn : Suspended(t)
  /\ task[1].pc = "relay"
  /\ task[MaxConns].pc = "connect"

\* C8 as claimed: a task that has ended has run exactly one handshake and
\* one relay pairing.
C8_ExactlyOneHandshakeAndPairing ==
  \A t \in Conn : Ended(t) => task[t].handshakes = 1 /\ task[t].pairings = 1

\* C8 as amended: a task makes one proxy connect, at most one handshake and
\* at most one relay pairing: exactly one handshake if the proxy connect
\* succeeded and none if it failed, exactly one pairing if the handshake
\* succeeded and none otherwise; and no socket is held or used by two tasks.
C8_AtMostOneHandshakeAndPairing ==
  /\ \A t \in Conn :
       /\ task[t].connects <= 1 /\ task[t].handshakes <= 1 /\ task[t].pairings <= 1
       /\ Ended(t) \/ Suspended(t) =>
            /\ task[t].pc # "connect" <=> task[t].connects = 1
            /\ task[t].handshakes = 1 <=> sock[OutboundSock(t)].state # "unused"
            /\ task[t].handshakes = 1 <=> task[t].result # "proxy_unreachable"
                                           /\ task[t].pc # "connect"
            /\ task[t].pairings = 1 <=> HandshakeSucceeded(t)
            /\ Len(SelectSeq(task[t].sent, LAMBDA m : m[1] = "methods")) =
                 IF TargetValid(args.target) THEN task[t].handshakes ELSE 0
            /\ Len(SelectSeq(task[t].sent, LAMBDA m : m[1] = "connect")) <= 1
  /\ \A s \in Sockets : Cardinality(users[s]) <= 1
  /\ \A t \in Conn, u \in Conn : t # u => SocksOf(t) \cap SocksOf(u) = {}

\* two tasks relay at the same time, each over its own pair of sockets
C8_Witness ==
  /\ task[1].pc = "relay" /\ task[2].pc = "relay"
  /\ task[1].pairings = 1 /\ task[2].pairings = 1
  /\ users[InboundSock(1)] = {1} /\ users[OutboundSock(1)] = {1}
  /\ users[InboundSock(2)] = {2} /\ users[OutboundSock(2)] = {2}

\* the proxy answered task t's handshake with a failure
ServerRefused(t) ==
  \E i \in 1..Len(task[t].rcvd) :
    \/ task[t].rcvd[i] = <<"method", 255>>
    \/ task[t].rcvd[i][1] = "auth" /\ task[t].rcvd[i][2] # 0
    \/ task[t].rcvd[i][1] = "connect" /\ task[t].rcvd[i][2] # 0

\* C9: a task whose handshake the proxy answered with a failure has ended
\* with a handshake error; it never paired or copied, read or wrote no relay
\* byte, its inbound socket is closed, and it ran the handshake once: one
\* method selection sent, the failure being the last reply it read.
C9_HandshakeFailureEndsTask ==
  \A t \in Conn :
    ServerRefused(t) =>
      /\ task[t].pc = "failed" /\ task[t].result = "handshake_failed"
      /\ task[t].pairings = 0
      /\ \A d \in Dirs :
           /\ task[t].copy[d] = "idle"
           /\ task[t].rd[d] = 0 /\ task[t].wr[d] = <<>> /\ task[t].buf[d] = <<>>
      /\ task[t].log = <<>>
      /\ sock[InboundSock(t)].state = "closed"
      /\ sock[OutboundSock(t)].state = "closed"
      /\ task[t].handshakes = 1 /\ task[t].connects = 1
      /\ Len(SelectSeq(task[t].sent, LAMBDA m : m[1] = "methods")) = 1
      /\ Len(task[t].sent) = Len(task[t].rcvd)

\* one task was refused at method negotiation (0xFF), another at CONNECT
\* (reply code 0x05)
C9_Witness ==
  \E t \in Conn, u \in Conn :
    /\ task[t].rcvd = <<(<<"method", 255>>)>>
    /\ task[u].rcvd # <<>>
    /\ task[u].rcvd[Len(task[u].rcvd)] = <<"connect", 5>>
    /\ task[t].pc = "failed" /\ task[u].pc = "failed"

\* the connect to the proxy of task t was attempted and opened no socket
ProxyConnectFailed(t) ==
  task[t].connects > 0 /\ sock[OutboundSock(t)].state = "unused"

\* C10: a task whose proxy connect failed has ended with that error after
\* one connect attempt, sent no handshake message, paired and copied
\* nothing, and its inbound socket is closed.
C10_ProxyUnreachableEndsTask ==
  \A t \in Conn :
    /\ ProxyConnectFailed(t) =>
         /\ task[t].pc = "failed" /\ task[t].result = "proxy_unreachable"
         /\ task[t].connects = 1
         /\ task[t].sent = <<>> /\ task[t].rcvd = <<>> /\ task[t].handshakes = 0
         /\ task[t].pairings = 0 /\ task[t].log = <<>>
         /\ \A d \in Dirs :
              task[t].copy[d] = "idle" /\ task[t].rd[d] = 0 /\ task[t].wr[d] = <<>>
         /\ sock[InboundSock(t)].state = "closed"
    /\ task[t].result = "proxy_unreachable" => ProxyConnectFailed(t)

\* a task ended as proxy-unreachable, its inbound socket closed
C10_Witness ==
  \E t \in Conn :
    /\ task[t].result = "proxy_unreachable"
    /\ sock[InboundSock(t)].state = "closed"
    /\ sock[OutboundSock(t)].state = "unused"

\* ------------------------------------------------------------------ C11
Elems(seq) == {seq[i] : i \in 1..Len(seq)}

\* both --user and --pass were given
BothGiven == args.username # NoArg /\ args.password # NoArg

\* the methods task t offered in its method selection
Offered(t) == Elems(task[t].sent[1][2])

\* the proxy selected method m and task t went on with it
Negotiated(t, m) ==
  /\ Len(task[t].rcvd) >= 1 /\ task[t].rcvd[1] = <<"method", m>>
  /\ Len(task[t].sent) >= 2

\* C11 as claimed: in every handshake method 0x00 is offered; with both
\* username and password given the negotiated method is 0x02; with either
\* absent the negotiated method is 0x00 and 0x02 is not offered.
C11_NegotiatedMethodFollowsCredential ==
  \A t \in Conn : task[t].sent # <<>> =>
    /\ 0 \in Offered(t)
    /\ ~BothGiven => 2 \notin Offered(t)
    /\ \A m \in MethodReplies :
         Negotiated(t, m) => m = IF BothGiven THEN 2 ELSE 0

\* C11 as amended: in every handshake method 0x00 is offered, and 0x02 is
\* offered exactly when both username and password were given. The negotiated
\* method is the one the proxy selects among those offered: with either
\* absent it is 0x00 and no authentication is sent; with both given it is
\* 0x02, followed by the authentication, or 0x00, followed by CONNECT at once.
C11_OfferedMethodsFollowCredential ==
  /\ proxy.credential # NoCredential <=> BothGiven
  /\ \A t \in Conn : task[t].sent # <<>> =>
       /\ 0 \in Offered(t)
       /\ 2 \in Offered(t) <=> BothGiven
       /\ task[t].via = IF BothGiven THEN "connect_with_password_and_socket"
                        ELSE "connect_with_socket"
       /\ \A m \in MethodReplies :
            Negotiated(t, m) =>
              /\ m \in Offered(t)
              /\ task[t].sent[2][1] = IF m = 2 THEN "auth" ELSE "connect"
       /\ \A i \in 1..Len(task[t].sent) :
            task[t].sent[i][1] = "auth" => BothGiven /\ Negotiated(t, 2) /\ i = 2

\* with both username and password given the proxy selected 0x00 and the
\* handshake succeeded without authentication
C11_Witness ==
  /\ BothGiven
  /\ task[1].pc = "relay"
  /\ Negotiated(1, 0)
  /\ task[1].rcvd = <<<<"method", 0>>, <<"connect", 0>>>>

\* ------------------------------------------------------------------ C12
\* the proxy answered task t's username/password authentication with a
\* non-zero status
AuthRefused(t) ==
  \E i \in 1..Len(task[t].rcvd) :
    task[t].rcvd[i][1] = "auth" /\ task[t].rcvd[i][2] # 0

\* C12: a task whose username/password authentication the proxy answered
\* with a non-zero status had a credential configured and has failed with the
\* handshake error, the refusal being the last reply it read; its inbound
\* socket is closed, it never paired, it sent no CONNECT request, and no later
\* step sends anything on that connection.
C12_FailedAuthEndsTaskWithoutConnect ==
  /\ [](\A t \in Conn : AuthRefused(t) =>
         /\ proxy.credential # NoCredential
         /\ task[t].via = "connect_with_password_and_socket"
         /\ task[t].pc = "failed" /\ task[t].result = "handshake_failed"
         /\ task[t].rcvd[Len(task[t].rcvd)][1] = "auth"
         /\ sock[InboundSock(t)].state = "closed"
         /\ sock[OutboundSock(t)].state = "closed"
         /\ task[t].pairings = 0
         /\ \A i \in 1..Len(task[t].sent) : task[t].sent[i][1] # "connect")
  /\ [][\A t \in Conn : AuthRefused(t) => task'[t] = task[t]]_vars

\* the proxy refused the authentication of the first connection, and the
\* second connection is still served
C12_Witness ==
  /\ AuthRefused(1)
  /\ task[1].pc = "failed"
  /\ task[1].sent = <<MethodSelection(proxy.credential), AuthRequest(proxy.credential)>>
  /\ task[2].pc = "relay"

\* ------------------------------------------------------------------ C13
\* C13 as claimed: for a target whose domain name is longer than 255 bytes
\* no listening socket is bound, no inbound connection is accepted and no
\* connection to the proxy is opened.
C13_LongTargetRejectedBeforeAnyIo ==
  ~TargetValid(args.target) =>
    /\ listener \in {"unbound", "bind_failed"}
    /\ nAccepted = 0
    /\ \A s \in Sockets : sock[s].state = "unused"

\* C13 as amended: a target whose domain name is longer than 255 bytes is
\* rejected only inside the handshake call of each relay task, after the
\* listening socket was bound, the connection accepted and the connection to
\* the proxy opened: the task fails and closes both sockets, it sent nothing
\* to the proxy and never paired. No other target is rejected this way, and a
\* CONNECT request that is sent carries the whole name: its length byte is the
\* length of the target given on the command line.
C13_LongTargetRejectedInHandshakeCall ==
  /\ \A t \in Conn :
       /\ task[t].result = "invalid_target" =>
            /\ ~TargetValid(args.target)
            /\ listener # "unbound" /\ nAccepted >= t
            /\ task[t].pc = "failed" /\ task[t].connects = 1
            /\ sock[InboundSock(t)].state = "closed"
            /\ sock[OutboundSock(t)].state = "closed"
       /\ \A i \in 1..Len(task[t].sent) :
            task[t].sent[i][1] = "connect" =>
              /\ task[t].sent[i][3] = args.target
              /\ task[t].sent[i][2] = args.target.len
  /\ ~TargetValid(args.target) =>
       \A t \in Conn :
         /\ task[t].sent = <<>> /\ task[t].rcvd = <<>> /\ task[t].pairings = 0
         /\ task[t].pc \in {"none", "connect", "failed", "aborted"}
         /\ task[t].pc = "failed" =>
              task[t].result \in {"proxy_unreachable", "invalid_target"}
         /\ sock[OutboundSock(t)].state # "unused" =>
              task[t].result = "invalid_target"

\* the listener is bound, two connections were accepted; the first opened its
\* connection to the proxy and then failed on the over-long target
C13_Witness ==
  /\ args.target.len = MaxDomainLen + 1
  /\ listener = "listening" /\ nAccepted = 2
  /\ task[1].result = "invalid_target"
  /\ sock[OutboundSock(1)].state = "closed"
  /\ task[2].pc = "connect"

\* ------------------------------------------------------------------ C14
\* the bytes task t has read from the source of direction d, in order
ReadFrom(t, d) == [i \in 1..task[t].rd[d] |-> Byte(d, i)]

IsPrefix(a, b) == Len(a) <= Len(b) /\ SubSeq(b, 1, Len(a)) = a

\* C14: in each direction the bytes written to the destination are a prefix
\* of the bytes read from the source after the handshake, what is read and
\* not yet written being the buffer of the copy; nothing is written before
\* the handshake succeeded, and a copy that returned at end-of-stream has
\* written all it read.
C14_BytesForwardedInOrder ==
  \A t \in Conn, d \in Dirs :
    /\ IsPrefix(task[t].wr[d], ReadFrom(t, d))
    /\ task[t].wr[d] \o task[t].buf[d] = ReadFrom(t, d)
    /\ task[t].rd[d] > 0 => Relayed(t) /\ HandshakeSucceeded(t)
    /\ task[t].copy[d] = "done" => task[t].wr[d] = ReadFrom(t, d)

\* one byte went each way and a second inbound byte is read, not yet written
C14_Witness ==
  /\ task[1].pc = "relay"
  /\ task[1].wr["client_to_server"] = <<Byte("client_to_server", 1)>>
  /\ task[1].wr["server_to_client"] = <<Byte("server_to_client", 1)>>
  /\ task[1].rd["client_to_server"] = 2
  /\ task[1].buf["client_to_server"] = <<Byte("client_to_server", 2)>>

\* ------------------------------------------------------------------ C15
\* after a successful handshake both sources of task t reached end-of-stream
\* and no copy or shutdown failed
BothSourcesEnded(t) ==
  /\ Relayed(t)
  /\ \A d \in Dirs : task[t].eof[d] /\ task[t].copy[d] \notin Errored

\* C15: once both sources of a relay have reached end-of-stream, no I/O
\* error having occurred, the task has finished with success: both copies
\* returned Ok having written all they read, shutdown was called on both
\* destinations and took effect, "Relay finished" is logged after "Start
\* relay", and both sockets are closed.
C15_BothEofEndsRelayWithSuccess ==
  \A t \in Conn : BothSourcesEnded(t) =>
    /\ task[t].pc = "ok" /\ task[t].result = "ok"
    /\ \A d \in Dirs :
         /\ task[t].copy[d] = "done"
         /\ task[t].shutdownCalled[d]
         /\ sock[Dst(t, d)].wrShut
         /\ sock[Dst(t, d)].state = "closed"
         /\ task[t].wr[d] = ReadFrom(t, d)
    /\ task[t].log = <<"Start relay", "Relay finished">>

\* a relay that forwarded a byte each way ended with success after both
\* sources reached end-of-stream
C15_Witness ==
  /\ BothSourcesEnded(1)
  /\ task[1].pc = "ok"
  /\ task[1].wr["client_to_server"] # <<>>
  /\ task[1].wr["server_to_client"] # <<>>

\* ------------------------------------------------------------------ C16
\* C16: when binding the listening socket has failed, serve() has returned
\* the error to main (which panics on it) having accepted nothing, spawned
\* nothing and logged nothing more, and no step follows: the bind is not
\* tried again. serve() has returned an error only if the bind failed: accept
\* errors and failed relay tasks never make it return.
C16_BindFailureIsTheOnlyErrorOfServe ==
  /\ [](listener = "bind_failed" =>
         /\ servePc = "returned_err" /\ mainPc = "panicked"
         /\ nAccepted = 0 /\ acceptErrs = 0
         /\ serveLog = <<"Listening">>
         /\ \A t \in Conn : task[t] = NoTask
         /\ \A s \in Sockets : sock[s] = UnusedSock)
  /\ [](servePc = "returned_err" => listener = "bind_failed")
  /\ [](acceptErrs > 0 \/ (\E t \in Conn : task[t].pc = "failed") =>
         servePc # "returned_err")
  /\ [][listener # "bind_failed"]_vars

\* the bind failed and serve() returned the error
C16_Witness ==
  /\ listener = "bind_failed"
  /\ servePc = "returned_err"
  /\ mainPc = "panicked"

\* ------------------------------------------------------------------ C17
\* C17: when the listener stream has ended, serve() has logged "Listener
\* closed" once, as its last event, and returned success; from then on no
\* connection is accepted, no task is spawned and nothing is logged. serve()
\* does not await the tasks it spawned: the end of the listener stream is
\* taken whenever the loop is waiting, whatever the relay tasks are doing.
C17_ListenerEndReturnsSuccess ==
  /\ [](listener = "closed" <=> servePc = "returned_ok")
  /\ [](servePc = "returned_ok" =>
         /\ mainPc = "exited"
         /\ serveLog[Len(serveLog)] = "Listener closed"
         /\ Len(SelectSeq(serveLog, LAMBDA e : e = "Listener closed")) = 1)
  /\ [](servePc # "returned_ok" => \A i \in 1..Len(serveLog) : serveLog[i] # "Listener closed")
  /\ [](AcceptLoop => ENABLED ListenerClosed)
  /\ [][servePc = "returned_ok" => UNCHANGED <<nAccepted, acceptErrs, serveLog, task, sock>>]_vars

\* serve() returned at the end of the listener stream while the two tasks
\* it had spawned were still running: neither was awaited
C17_Witness ==
  /\ servePc = "returned_ok"
  /\ nAccepted = 2
  /\ task[1].pc = "aborted"
  /\ task[2].pc = "aborted"
  /\ serveLog[Len(serveLog)] = "Listener closed"

\* ------------------------------------------------------------------ C18
\* C18: a relay task that has ended, by return or by being dropped with the
\* runtime, leaves no socket open: its inbound socket is closed, and its
\* outbound socket is closed if the connect to the proxy opened it and was
\* never opened otherwise. An open socket belongs to a task still running.
C18_EndedTaskLeavesNoSocketOpen ==
  \A t \in Conn :
    /\ task[t].pc \in {"ok", "failed", "aborted"} =>
         /\ sock[InboundSock(t)].state = "closed"
         /\ sock[OutboundSock(t)].state \in {"unused", "closed"}
         /\ task[t].result = "proxy_unreachable" =>
              sock[OutboundSock(t)].state = "unused"
         /\ task[t].result \in {"invalid_target", "handshake_failed", "io_error", "ok"} =>
              sock[OutboundSock(t)].state = "closed"
    /\ \A s \in SocksOf(t) :
         sock[s].state = "open" =>
           task[t].pc \in {"connect", "wait_method", "wait_auth", "wait_connect", "relay"}

\* one task ended on an I/O error of a copy, the other completed normally
C18_Witness ==
  /\ task[1].result = "io_error"
  /\ task[2].result = "ok"
  /\ \A s \in Sockets : sock[s].state = "closed"

\* ------------------------------------------------------------------ C19
\* the events logged at error level
ErrorEvents == {"Receiving incoming connection in failure"}

\* the error events among the events e
ErrorsIn(e) == SelectSeq(e, LAMBDA x : x \in ErrorEvents)

\* C19 as claimed: every accept error has its error event in the log of
\* serve(), and every relay task that failed has emitted an error event;
\* "Start relay" is logged only after a successful handshake and "Relay
\* finished" only after both directions ended.
C19_EveryFailureLogsAnError ==
  /\ Len(ErrorsIn(serveLog)) = acceptErrs
  /\ \A t \in Conn :
       /\ task[t].pc = "failed" => ErrorsIn(task[t].log) # <<>>
       /\ "Start relay" \in Elems(task[t].log) => HandshakeSucceeded(t)
       /\ "Relay finished" \in Elems(task[t].log) =>
            \A d \in Dirs : task[t].copy[d] = "done"

\* ------------------------------------------------------------------ C20
\* C20 as claimed: with --user and --pass both given
\* blank the ProxyConfig carries no credential and every handshake is made
\* with connect_with_socket, offering no username/password method.
C20_BlankCredentialIsNoCredential ==
  args.username = "" /\ args.password = "" =>
    /\ proxy.credential = NoCredential
    /\ \A t \in Conn :
         /\ task[t].via # "connect_with_password_and_socket"
         /\ task[t].sent # <<>> => 2 \notin Offered(t)
====
